---- MODULE Spec2Model ----
(***************************************************************************)
(* Model of cormoran/NestDoorbellConsumer.                                 *)
(*                                                                         *)
(*  - the clip server (src/unnamed/part_000): the calendar-range           *)
(*    decomposer listTargetDirectories and the /list handler;              *)
(*  - the event consumer (src/main.go): the sub.Receive callback, the      *)
(*    event dispatcher Process and downloadAndSaveCameraClipPreview.       *)
(*                                                                         *)
(* A time.Time is a record of its civil fields in its own location (the    *)
(* location is taken to have a fixed offset): year, month, day, hour and   *)
(* sub, the seconds past the hour.  A path is a sequence of segments, a    *)
(* segment the sequence of its decimal digits.                             *)
(***************************************************************************)
EXTENDS Integers, Sequences, FiniteSets, TLC

(***************************************************************************)
(* Bounds of the checked input space.                                      *)
(***************************************************************************)
\* years BaseYear .. BaseYear + YearSpan
YearSpan == 2
\* months 1 .. EdgeMonths, and December
EdgeMonths == 2
\* days 1 .. EdgeDays, and the last day of the month
EdgeDays == 1
\* hours 0 .. EdgeHours, and 23
EdgeHours == 1
\* seconds past the hour 0 .. MaxSub
MaxSub == 1

\* messages 1 .. NumMsgs of the subscription
NumMsgs == 2
\* the format-resolved wall-clock time 0 .. MaxClock
MaxClock == 1
\* the collision probe is followed up to the suffix MaxProbe
MaxProbe == 3

BaseYear == 2023

(***************************************************************************)
(* package time: the civil calendar                                        *)
(***************************************************************************)
IsLeap(y) == (y % 4 = 0 /\ y % 100 # 0) \/ y % 400 = 0

DaysIn(y, m) ==
    IF m = 2 THEN (IF IsLeap(y) THEN 29 ELSE 28)
    ELSE IF m \in {4, 6, 9, 11} THEN 30 ELSE 31

\* time.Date normalises out-of-range months, days and hours
RECURSIVE Date(_, _, _, _, _)
Date(y, m, d, h, s) ==
    IF m > 12 THEN Date(y + 1, m - 12, d, h, s)
    ELSE IF m < 1 THEN Date(y - 1, m + 12, d, h, s)
    ELSE IF h > 23 THEN Date(y, m, d + 1, h - 24, s)
    ELSE IF h < 0 THEN Date(y, m, d - 1, h + 24, s)
    ELSE IF d > DaysIn(y, m) THEN Date(y, m + 1, d - DaysIn(y, m), h, s)
    ELSE IF d < 1 THEN
        (IF m = 1 THEN Date(y - 1, 12, d + 31, h, s)
         ELSE Date(y, m - 1, d + DaysIn(y, m - 1), h, s))
    ELSE [year |-> y, month |-> m, day |-> d, hour |-> h, sub |-> s]

Year(t) == t.year
Month(t) == t.month
Day(t) == t.day
Hour(t) == t.hour

\* t.AddDate(years, months, days)
AddDate(t, years, months, days) ==
    Date(t.year + years, t.month + months, t.day + days, t.hour, t.sub)

\* t.Add(n * time.Hour)
AddHours(t, n) == Date(t.year, t.month, t.day, t.hour + n, t.sub)

\* t.Add(-time.Nanosecond): the last nanosecond before t lies in the hour of t
\* when t is past the hour, and in the last second of the hour before otherwise
SubNanosecond(t) ==
    IF t.sub > 0 THEN [t EXCEPT !.sub = t.sub - 1]
    ELSE Date(t.year, t.month, t.day, t.hour - 1, 3599)

\* t.Before(u)
Before(t, u) ==
    \/ t.year < u.year
    \/ t.year = u.year /\ t.month < u.month
    \/ t.year = u.year /\ t.month = u.month /\ t.day < u.day
    \/ t.year = u.year /\ t.month = u.month /\ t.day = u.day /\ t.hour < u.hour
    \/ t.year = u.year /\ t.month = u.month /\ t.day = u.day /\ t.hour = u.hour
       /\ t.sub < u.sub

(***************************************************************************)
(* strconv.Itoa and fmt.Sprintf("%0wd"): decimal digits                    *)
(***************************************************************************)
RECURSIVE Itoa(_)
Itoa(n) == IF n < 10 THEN <<n>> ELSE Append(Itoa(n \div 10), n % 10)

RECURSIVE ZeroPad(_, _)
ZeroPad(digits, w) == IF Len(digits) >= w THEN digits ELSE ZeroPad(<<0>> \o digits, w)

\* fmt.Sprintf("%04d", n), fmt.Sprintf("%02d", n)
Sprintf04d(n) == ZeroPad(Itoa(n), 4)
Sprintf02d(n) == ZeroPad(Itoa(n), 2)

(***************************************************************************)
(* listTargetDirectories (src/unnamed/part_000:59-102)                     *)
(***************************************************************************)
NoPanic == "none"
PanicDecember == "fromTs.Month() must not be Descember"
PanicLarger == "fromTs.Month() must not be larger than toTs"

\* for year := fromTs.Year(); year < toTs.Year(); year++
RECURSIVE yearLoop(_, _, _, _)
yearLoop(year, toTs, fromTs, result) ==
    IF year < Year(toTs)
    THEN yearLoop(year + 1, toTs, AddDate(fromTs, 1, 0, 0),
                  Append(result, <<Itoa(year)>>))
    ELSE [fromTs |-> fromTs, result |-> result]

\* for month := fromTs.Month(); month < toTs.Month(); month++
RECURSIVE monthLoop(_, _, _, _)
monthLoop(month, toTs, fromTs, result) ==
    IF month < Month(toTs)
    THEN monthLoop(month + 1, toTs, AddDate(fromTs, 0, 1, 0),
                   Append(result, <<Sprintf04d(Year(fromTs)), Sprintf02d(month)>>))
    ELSE [fromTs |-> fromTs, result |-> result]

\* for day := fromTs.Day(); day < toTs.Day(); day++
RECURSIVE dayLoop(_, _, _, _)
dayLoop(day, toTs, fromTs, result) ==
    IF day < Day(toTs)
    THEN dayLoop(day + 1, toTs, AddDate(fromTs, 0, 0, 1),
                 Append(result, <<Sprintf04d(Year(fromTs)),
                                  Sprintf02d(Month(fromTs)), Sprintf02d(day)>>))
    ELSE [fromTs |-> fromTs, result |-> result]

\* the hour loop with its bound off by one: hour <= toTs.Hour()
RECURSIVE hourLoopInclusive(_, _, _, _)
hourLoopInclusive(hour, toTs, fromTs, result) ==
    IF hour <= Hour(toTs)
    THEN hourLoopInclusive(hour + 1, toTs, AddHours(fromTs, 1),
                  Append(result, <<Sprintf04d(Year(fromTs)), Sprintf02d(Month(fromTs)),
                                   Sprintf02d(Day(fromTs)), Sprintf02d(hour)>>))
    ELSE [fromTs |-> fromTs, result |-> result]

\* for hour := fromTs.Hour(); hour < toTs.Hour(); hour++
RECURSIVE hourLoop(_, _, _, _)
hourLoop(hour, toTs, fromTs, result) ==
    IF hour < Hour(toTs)
    THEN hourLoop(hour + 1, toTs, AddHours(fromTs, 1),
                  Append(result, <<Sprintf04d(Year(fromTs)), Sprintf02d(Month(fromTs)),
                                   Sprintf02d(Day(fromTs)), Sprintf02d(hour)>>))
    ELSE [fromTs |-> fromTs, result |-> result]

RECURSIVE listTargetDirectories(_, _)

\* if fromTs.Year() != toTs.Add(-time.Nanosecond).Year() { ... }
yearStep(st, toTs) ==
    IF Year(st.fromTs) # Year(SubNanosecond(toTs))
    THEN LET nextFromTs == Date(Year(st.fromTs) + 1, 1, 1, 0, 0)
             rec == listTargetDirectories(st.fromTs, nextFromTs)
             loop == yearLoop(Year(nextFromTs), toTs, nextFromTs, st.result \o rec.result)
         IN  IF rec.panic # NoPanic
             THEN [panic |-> rec.panic, fromTs |-> st.fromTs, result |-> st.result]
             ELSE [panic |-> NoPanic, fromTs |-> loop.fromTs, result |-> loop.result]
    ELSE st

\* if fromTs.Month() != toTs.Add(-time.Nanosecond).Month() { ... }
monthStep(st, toTs) ==
    IF Month(st.fromTs) # Month(SubNanosecond(toTs))
    THEN IF Month(st.fromTs) = 12
         THEN [st EXCEPT !.panic = PanicDecember]
         ELSE IF Month(st.fromTs) > Month(toTs)
         THEN [st EXCEPT !.panic = PanicLarger]
         ELSE LET nextFromTs == Date(Year(st.fromTs), Month(st.fromTs) + 1, 1, 0, 0)
                  rec == listTargetDirectories(st.fromTs, nextFromTs)
                  loop == monthLoop(Month(nextFromTs), toTs, nextFromTs,
                                    st.result \o rec.result)
              IN  IF rec.panic # NoPanic
                  THEN [panic |-> rec.panic, fromTs |-> st.fromTs, result |-> st.result]
                  ELSE [panic |-> NoPanic, fromTs |-> loop.fromTs, result |-> loop.result]
    ELSE st

\* if fromTs.Day() != toTs.Add(-time.Nanosecond).Day() { ... }
dayStep(st, toTs) ==
    IF Day(st.fromTs) # Day(SubNanosecond(toTs))
    THEN LET nextFromTs == Date(Year(st.fromTs), Month(st.fromTs), Day(st.fromTs) + 1, 0, 0)
             rec == listTargetDirectories(st.fromTs, nextFromTs)
             loop == dayLoop(Day(nextFromTs), toTs, nextFromTs, st.result \o rec.result)
         IN  IF rec.panic # NoPanic
             THEN [panic |-> rec.panic, fromTs |-> st.fromTs, result |-> st.result]
             ELSE [panic |-> NoPanic, fromTs |-> loop.fromTs, result |-> loop.result]
    ELSE st

\* if fromTs.Hour() != toTs.Add(-time.Nanosecond).Hour() { ... }
hourStep(st, toTs) ==
    IF Hour(st.fromTs) # Hour(SubNanosecond(toTs))
    THEN LET loop == hourLoop(Hour(st.fromTs), toTs, st.fromTs, st.result)
         IN  [panic |-> NoPanic, fromTs |-> loop.fromTs, result |-> loop.result]
    ELSE st

\* the function: a log.Panic unwinds through every caller, so the steps after a
\* panicking one are not run and no list is returned
listTargetDirectories(fromTs, toTs) ==
    LET s0 == [panic |-> NoPanic, fromTs |-> fromTs, result |-> <<>>]
        s1 == yearStep(s0, toTs)
        s2 == IF s1.panic # NoPanic THEN s1 ELSE monthStep(s1, toTs)
        s3 == IF s2.panic # NoPanic THEN s2 ELSE dayStep(s2, toTs)
        s4 == IF s3.panic # NoPanic THEN s3 ELSE hourStep(s3, toTs)
    IN  [panic |-> s4.panic, result |-> IF s4.panic # NoPanic THEN <<>> ELSE s4.result]

(***************************************************************************)
(* The instants the requests are drawn from: the edges of the years,       *)
(* months, days and hours, on the hour and past it.                        *)
(***************************************************************************)
Years == BaseYear .. (BaseYear + YearSpan)
EdgeMonthSet == (1 .. EdgeMonths) \cup {12}
EdgeDaySet(y, m) == (1 .. EdgeDays) \cup {DaysIn(y, m)}
EdgeHourSet == (0 .. EdgeHours) \cup {23}

Instants ==
    UNION { UNION { { [year |-> y, month |-> m, day |-> d, hour |-> h, sub |-> s] :
                        d \in EdgeDaySet(y, m), h \in EdgeHourSet, s \in 0 .. MaxSub } :
                    m \in EdgeMonthSet } : y \in Years }

T(y, m, d, h, s) == [year |-> y, month |-> m, day |-> d, hour |-> h, sub |-> s]

\* the instants the /list requests are drawn from: the first days of the months
\* of two years, on the hour
ListInstants ==
    { t \in Instants : t.sub = 0 /\ t.day = 1 /\ t.year <= BaseYear + 1 }

\* a query parameter: absent, not an integer, or the unix time of an instant
Params ==
    {[kind |-> "empty", t |-> T(BaseYear, 1, 1, 0, 0)],
     [kind |-> "bad", t |-> T(BaseYear, 1, 1, 0, 0)]}
    \cup { [kind |-> "unix", t |-> t] : t \in ListInstants }

VARIABLES
    fromTs,     \* /list: the parsed from parameter
    toTs,       \* /list: the parsed to parameter
    lpc,        \* /list: where the handler is
    dirs,       \* /list: what listTargetDirectories returned
    query,      \* /list: the from and to parameters of the request
    status,     \* /list: the response status, 0 while none is written
    body,       \* /list: the prefixes whose regular files are in the response
    walkErr,    \* /list: a filesystem error occurred during the walk
    cpc,        \* consumer: where the callback of each message is
    event,      \* consumer: the data of each delivered message
    acks,       \* consumer: the calls of m.Ack() per message
    nacks,      \* consumer: the calls of m.Nack() per message
    outcome,    \* consumer: what Unmarshal and Process returned per callback
    started,    \* consumer: the callback called client.Get
    local,      \* consumer: extensions[0], fileNameFormat and i of each
                \*           running download
    statFault,  \* consumer: os.Stat fails in the output directory with an
                \*           error other than "not exist"
    created,    \* consumer: the os.Create calls that succeeded, in order
    clock,      \* consumer: the wall-clock time as the file name format resolves it
    receiving,  \* consumer: sub.Receive is running
    crashed     \* consumer: the process has died

listVars == <<fromTs, toTs, lpc, dirs, query, status, body, walkErr>>
consumerVars == <<cpc, event, acks, nacks, outcome, started, local, statFault,
                  created, clock, receiving, crashed>>
vars == <<fromTs, toTs, lpc, dirs, query, status, body, walkErr,
          cpc, event, acks, nacks, outcome, started, local, statFault, created,
          clock, receiving, crashed>>

NoDirs == [panic |-> NoPanic, result |-> <<>>]
NoQuery == [from |-> [kind |-> "empty", t |-> T(BaseYear, 1, 1, 0, 0)],
            to |-> [kind |-> "empty", t |-> T(BaseYear, 1, 1, 0, 0)]]

(***************************************************************************)
(* The event consumer (src/main.go)                                        *)
(***************************************************************************)
Msgs == 1 .. NumMsgs
\* the event-session ids of the clip previews, and the nil clip preview
Sessions == {"session-a", "session-b"}
NoClip == "<nil>"

DoorbellChime == "sdm.devices.events.DoorbellChime.Chime"
CameraMotion == "sdm.devices.events.CameraMotion.Motion"
CameraPerson == "sdm.devices.events.CameraPerson.Person"
CameraClipPreview == "sdm.devices.events.CameraClipPreview.ClipPreview"
EventKeys == {DoorbellChime, CameraMotion, CameraPerson, CameraClipPreview}

\* a payload of the events map: the key is absent, or its raw JSON decodes into
\* the struct of its kind ("ok") or does not ("bad")
Payloads == {"absent", "ok", "bad"}
NoEvents == [k \in EventKeys |-> "absent"]

\* message data that is not the JSON of a DeviceEvent
BadJson ==
    [json |-> FALSE, resourceUpdate |-> FALSE, relationUpdate |-> FALSE,
     events |-> NoEvents, traits |-> {}, sid |-> NoClip]

\* the decoded DeviceEvents: resourceUpdate and relationUpdate are nil or not;
\* a resource update has an events map, a traits map and, in a clip preview
\* that decodes, the event-session id
AllEvents ==
    {BadJson}
    \cup { [json |-> TRUE, resourceUpdate |-> FALSE, relationUpdate |-> rel,
            events |-> NoEvents, traits |-> {}, sid |-> NoClip] : rel \in BOOLEAN }
    \cup { e \in [json : {TRUE}, resourceUpdate : {TRUE}, relationUpdate : BOOLEAN,
                  events : [EventKeys -> Payloads],
                  traits : {{}, {"sdm.devices.traits.Info"}},
                  sid : {NoClip} \cup Sessions] :
             (e.sid # NoClip) <=> (e.events[CameraClipPreview] = "ok") }

ResourceUpdateOf(evs, s) ==
    [json |-> TRUE, resourceUpdate |-> TRUE, relationUpdate |-> FALSE,
     events |-> evs, traits |-> {}, sid |-> s]

\* the events the concurrent runs deliver
Events ==
    {BadJson,
     [json |-> TRUE, resourceUpdate |-> FALSE, relationUpdate |-> TRUE,
      events |-> NoEvents, traits |-> {}, sid |-> NoClip],
     ResourceUpdateOf([NoEvents EXCEPT ![CameraMotion] = "ok",
                                       ![CameraClipPreview] = "bad"], NoClip)}
    \cup { ResourceUpdateOf([NoEvents EXCEPT ![DoorbellChime] = "ok",
                                             ![CameraClipPreview] = "ok"], s) :
             s \in Sessions }

Nil == [err |-> "nil", events |-> {}, traits |-> {}]
Error(msg) == [err |-> msg, events |-> {}, traits |-> {}]

\* the clipPreviewEvent pointer: set when the key is present and its payload
\* decodes, nil otherwise
clipPreviewEvent(e) == IF e.events[CameraClipPreview] = "ok" THEN e.sid ELSE NoClip

\* a processor that downloads without looking at the clip preview pointer
processPrimaryEventAlways(clipPreview) == [kind |-> "download", res |-> Nil]

\* processChimeEvent, processMotionEvent, processPersonEvent
processPrimaryEvent(clipPreview) ==
    IF clipPreview # NoClip
    THEN [kind |-> "download", res |-> Nil]
    ELSE [kind |-> "return", res |-> Nil]

processResourceUpdateEvent(e) ==
    IF e.events[DoorbellChime] # "absent"
    THEN IF e.events[DoorbellChime] = "bad"
         THEN [kind |-> "return", res |-> Error("json: cannot unmarshal")]
         ELSE processPrimaryEvent(clipPreviewEvent(e))
    ELSE IF e.events[CameraMotion] # "absent"
    THEN IF e.events[CameraMotion] = "bad"
         THEN [kind |-> "return", res |-> Error("json: cannot unmarshal")]
         ELSE processPrimaryEvent(clipPreviewEvent(e))
    ELSE IF e.events[CameraPerson] # "absent"
    THEN IF e.events[CameraPerson] = "bad"
         THEN [kind |-> "return", res |-> Error("json: cannot unmarshal")]
         ELSE processPrimaryEvent(clipPreviewEvent(e))
    ELSE [kind |-> "return",
          res |-> [err |-> "unsupported resource update event",
                   events |-> { k \in EventKeys : e.events[k] # "absent" },
                   traits |-> e.traits]]

processRelationUpdateEvent(e) == [kind |-> "return", res |-> Nil]

Process(e) ==
    IF e.resourceUpdate THEN processResourceUpdateEvent(e)
    ELSE IF e.relationUpdate THEN processRelationUpdateEvent(e)
    ELSE [kind |-> "return", res |-> Error("Unsupported event")]

\* the locals of downloadAndSaveCameraClipPreview
NoLocal == [ext |-> "", ts |-> 0, i |-> 0]
Extensions == {".mp4", ".video.unknown"}

\* filepath.Join(outputDir, ReplaceAll(fileNameFormat, "{eventSessionId}",
\*               EventSessionId + "_" + strconv.Itoa(i)) + extensions[0])
FileName(sid, l) == [sid |-> sid, ts |-> l.ts, ext |-> l.ext, i |-> l.i]

Exists(name) == \E k \in 1 .. Len(created) : created[k].name = name

\* os.Stat(fileName): nil, an error that os.IsNotExist accepts, or another
\* error (a directory that cannot be searched, a name too long), which stays
\* for every name that is probed
osStat(name, fault) ==
    IF fault THEN "error" ELSE IF Exists(name) THEN "nil" ELSE "not exist"

\* a probe that takes the first name whatever os.Stat says
probeBreaksAlways(st) == TRUE

\* if _, err := os.Stat(fileName); os.IsNotExist(err) { break }
probeBreaks(st) == st = "not exist"

\* the directory of the file name exists once a file was created in it
DirExists(ts) == \E k \in 1 .. Len(created) : created[k].name.ts = ts

InFlight == { m \in Msgs : cpc[m] \notin {"queued", "done"} }

ConsumerInit ==
    /\ cpc = [m \in Msgs |-> "queued"]
    /\ event = [m \in Msgs |-> BadJson]
    /\ acks = [m \in Msgs |-> 0]
    /\ nacks = [m \in Msgs |-> 0]
    /\ outcome = [m \in Msgs |-> Nil]
    /\ started = [m \in Msgs |-> FALSE]
    /\ local = [m \in Msgs |-> NoLocal]
    /\ statFault \in BOOLEAN
    /\ created = <<>>
    /\ clock = 0
    /\ receiving = TRUE
    /\ crashed = FALSE

\* a callback that calls m.Ack() as its first statement
DeliverAckFirst(m, e, limit) ==
    /\ receiving
    /\ ~crashed
    /\ cpc[m] = "queued"
    /\ \A n \in Msgs : n < m => cpc[n] # "queued"
    /\ Cardinality(InFlight) < limit
    /\ cpc' = [cpc EXCEPT ![m] = "received"]
    /\ event' = [event EXCEPT ![m] = e]
    /\ acks' = [acks EXCEPT ![m] = @ + 1]
    /\ UNCHANGED <<nacks, outcome, started, local, statFault, created, clock,
                   receiving, crashed>>
    /\ UNCHANGED listVars

\* the messaging client calls the callback of sub.Receive with a message; the
\* messages are numbered in the order of their delivery
Deliver(m, e, limit) ==
    /\ receiving
    /\ ~crashed
    /\ cpc[m] = "queued"
    /\ \A n \in Msgs : n < m => cpc[n] # "queued"
    /\ Cardinality(InFlight) < limit
    /\ cpc' = [cpc EXCEPT ![m] = "received"]
    /\ event' = [event EXCEPT ![m] = e]
    /\ UNCHANGED <<acks, nacks, outcome, started, local, statFault, created, clock,
                   receiving, crashed>>
    /\ UNCHANGED listVars

\* a callback that acknowledges on success only, and nacks an error
callbackReturnNackOnError(m, res) ==
    /\ cpc' = [cpc EXCEPT ![m] = "done"]
    /\ acks' = [acks EXCEPT ![m] = IF res = Nil THEN @ + 1 ELSE @]
    /\ nacks' = [nacks EXCEPT ![m] = IF res = Nil THEN @ ELSE @ + 1]
    /\ outcome' = [outcome EXCEPT ![m] = res]
    /\ local' = [local EXCEPT ![m] = NoLocal]
    /\ UNCHANGED receiving

\* the callback returns: the deferred m.Ack() runs
callbackReturn(m, res) ==
    /\ cpc' = [cpc EXCEPT ![m] = "done"]
    /\ acks' = [acks EXCEPT ![m] = @ + 1]
    /\ outcome' = [outcome EXCEPT ![m] = res]
    /\ local' = [local EXCEPT ![m] = NoLocal]
    /\ UNCHANGED <<nacks, receiving>>

\* json.Unmarshal(m.Data, &event) and processor.Process(&event), up to the
\* call of downloadAndSaveCameraClipPreview or the return
HandleMessage(m) ==
    /\ ~crashed
    /\ cpc[m] = "received"
    /\ IF ~event[m].json
       THEN /\ callbackReturn(m, Error("unmarshal"))
            /\ UNCHANGED started
       ELSE LET d == Process(event[m]) IN
            IF d.kind = "download"
            THEN /\ cpc' = [cpc EXCEPT ![m] = "get"]
                 /\ started' = [started EXCEPT ![m] = TRUE]
                 /\ UNCHANGED <<acks, nacks, outcome, local, receiving>>
            ELSE /\ callbackReturn(m, d.res)
                 /\ UNCHANGED started
    /\ UNCHANGED <<event, statFault, created, clock, crashed>>
    /\ UNCHANGED listVars

\* p.client.Get, mime.ExtensionsByType, i := 0, time.Now().Format
Get(m) ==
    /\ ~crashed
    /\ cpc[m] = "get"
    /\ \/ /\ callbackReturn(m, Error("get"))
       \/ \E x \in Extensions :
            /\ local' = [local EXCEPT ![m] = [ext |-> x, ts |-> clock, i |-> 0]]
            /\ cpc' = [cpc EXCEPT ![m] = "probe"]
            /\ UNCHANGED <<acks, nacks, outcome, receiving>>
    /\ UNCHANGED <<event, started, statFault, created, clock, crashed>>
    /\ UNCHANGED listVars

\* one turn of the collision probe
Probe(m) ==
    /\ ~crashed
    /\ cpc[m] = "probe"
    /\ IF probeBreaks(osStat(FileName(event[m].sid, local[m]), statFault))
       THEN /\ cpc' = [cpc EXCEPT ![m] = "create"]
            /\ UNCHANGED local
       ELSE /\ local[m].i < MaxProbe
            /\ local' = [local EXCEPT ![m].i = @ + 1]
            /\ UNCHANGED cpc
    /\ UNCHANGED <<event, acks, nacks, outcome, started, statFault, created, clock,
                   receiving, crashed>>
    /\ UNCHANGED listVars

\* os.Stat(outputDir), os.MkdirAll, os.Create: the file is created, or
\* truncated when it exists
Create(m) ==
    /\ ~crashed
    /\ cpc[m] = "create"
    /\ \/ /\ ~DirExists(local[m].ts)
          /\ callbackReturn(m, Error("mkdir"))
          /\ UNCHANGED created
       \/ /\ callbackReturn(m, Error("create"))
          /\ UNCHANGED created
       \/ /\ created' = Append(created, [name |-> FileName(event[m].sid, local[m]),
                                         by |-> m])
          /\ cpc' = [cpc EXCEPT ![m] = "copy"]
          /\ UNCHANGED <<acks, nacks, outcome, local, receiving>>
    /\ UNCHANGED <<event, started, statFault, clock, crashed>>
    /\ UNCHANGED listVars

\* io.Copy(file, resp.Body)
Copy(m) ==
    /\ ~crashed
    /\ cpc[m] = "copy"
    /\ \/ callbackReturn(m, Error("copy"))
       \/ callbackReturn(m, Nil)
    /\ UNCHANGED <<event, started, statFault, created, clock, crashed>>
    /\ UNCHANGED listVars

\* the wall clock passes into the next format-resolved time, while a callback
\* is still to read it
Tick ==
    /\ ~crashed
    /\ clock < MaxClock
    /\ \E m \in Msgs : cpc[m] \in {"queued", "received", "get"}
    /\ clock' = clock + 1
    /\ UNCHANGED <<cpc, event, acks, nacks, outcome, started, local, statFault,
                   created, receiving, crashed>>
    /\ UNCHANGED listVars

\* the process dies (a kill, a power loss, log.Fatal after sub.Receive fails)
\* while callbacks are running: what the running callbacks held in memory is
\* gone, the files and the acknowledgements the service has received stay
Crash ==
    /\ ~crashed
    /\ InFlight # {}
    /\ crashed' = TRUE
    /\ receiving' = FALSE
    /\ event' = [m \in Msgs |-> IF m \in InFlight THEN BadJson ELSE event[m]]
    /\ local' = [m \in Msgs |-> NoLocal]
    /\ started' = [m \in Msgs |-> IF m \in InFlight THEN FALSE ELSE started[m]]
    /\ UNCHANGED <<cpc, acks, nacks, outcome, statFault, created, clock>>
    /\ UNCHANGED listVars

ListIdle ==
    /\ fromTs = T(BaseYear, 1, 1, 0, 0)
    /\ toTs = T(BaseYear, 1, 1, 0, 0)
    /\ lpc = "idle"
    /\ dirs = NoDirs
    /\ query = NoQuery
    /\ status = 0
    /\ body = <<>>
    /\ walkErr = FALSE

Init == ConsumerInit /\ ListIdle

Callback(m) ==
    \/ HandleMessage(m)
    \/ Get(m)
    \/ Probe(m)
    \/ Create(m)
    \/ Copy(m)

\* the consumer as the messaging client runs it: the callbacks of all
\* outstanding messages run concurrently (no ReceiveSettings are set)
Next ==
    \/ \E m \in Msgs, e \in Events : Deliver(m, e, NumMsgs)
    \/ \E m \in Msgs : Callback(m)
    \/ Tick
    \/ Crash

Spec == Init /\ [][Next]_vars

\* the consumer with one callback at a time
NextSeq ==
    \/ \E m \in Msgs, e \in Events : Deliver(m, e, 1)
    \/ \E m \in Msgs : Callback(m)
    \/ Tick
    \/ Crash

SpecSeq == Init /\ [][NextSeq]_vars

\* one message of every shape
NextDispatch ==
    \/ \E e \in AllEvents : Deliver(1, e, 1)
    \/ Callback(1)
    \/ Tick
    \/ Crash

SpecDispatch == Init /\ [][NextDispatch]_vars

(***************************************************************************)
(* The decomposer on its own: every pair from < to of Instants.            *)
(***************************************************************************)
InitDecomp ==
    /\ fromTs \in Instants
    /\ toTs \in Instants
    /\ Before(fromTs, toTs)
    /\ lpc = "call"
    /\ dirs = NoDirs
    /\ query = NoQuery
    /\ status = 0
    /\ body = <<>>
    /\ walkErr = FALSE
    /\ ConsumerInit
    /\ statFault = FALSE

Decompose ==
    /\ lpc = "call"
    /\ dirs' = listTargetDirectories(fromTs, toTs)
    /\ lpc' = IF dirs'.panic # NoPanic THEN "panicked" ELSE "returned"
    /\ UNCHANGED <<fromTs, toTs, query, status, body, walkErr>>
    /\ UNCHANGED consumerVars

NextDecomp == Decompose

SpecDecomp == InitDecomp /\ [][NextDecomp]_vars

(***************************************************************************)
(* The /list handler (src/unnamed/part_000:110-148)                        *)
(***************************************************************************)
\* parseUnixTimeOrDefault
parseUnixTimeOrDefault(unixTsStr, defaultTime) ==
    IF unixTsStr.kind = "empty" THEN [err |-> FALSE, t |-> defaultTime]
    ELSE IF unixTsStr.kind = "bad" THEN [err |-> TRUE, t |-> defaultTime]
    ELSE [err |-> FALSE, t |-> unixTsStr.t]

\* the walk of the candidate directories: failing is the set of the positions
\* at which the filesystem fails.  The callback returns nil whatever error it
\* is handed, the result of filepath.WalkDir is dropped, and a file whose
\* filepath.Rel fails is skipped: the files of the other directories are kept.
RECURSIVE walkAll(_, _, _)
walkAll(ds, failing, i) ==
    IF i > Len(ds) THEN <<>>
    ELSE (IF i \in failing THEN <<>> ELSE <<ds[i]>>) \o walkAll(ds, failing, i + 1)

\* json.Marshal of a []string does not fail
marshalFails(result) == FALSE

\* a handler that answers a failed walk with 500
walkStatusChecked(failed, result) == IF failed \/ marshalFails(result) THEN 500 ELSE 200

\* the status after the walk
walkStatus(failed, result) == IF marshalFails(result) THEN 500 ELSE 200

\* the positions that fail: none, one, or all from one on
FailingSets(n) ==
    {{}} \cup { {k} : k \in 1 .. n } \cup { k .. n : k \in 1 .. n }

InitList ==
    /\ query \in [from : Params, to : Params]
    /\ lpc = "request"
    /\ fromTs = T(BaseYear, 1, 1, 0, 0)
    /\ toTs = T(BaseYear, 1, 1, 0, 0)
    /\ dirs = NoDirs
    /\ status = 0
    /\ body = <<>>
    /\ walkErr = FALSE
    /\ ConsumerInit
    /\ statFault = FALSE

ListHandler ==
    /\ lpc = "request"
    /\ \E now \in (IF query.from.kind = "empty" THEN ListInstants
                   ELSE {T(BaseYear, 1, 1, 0, 0)}) :
        LET f == parseUnixTimeOrDefault(query.from, AddHours(now, -24))
            t == parseUnixTimeOrDefault(query.to, AddHours(f.t, 24))
        IN  IF f.err \/ t.err \/ ~Before(f.t, t.t)
            THEN /\ status' = 400
                 /\ lpc' = "done"
                 /\ fromTs' = (IF f.err THEN fromTs ELSE f.t)
                 /\ toTs' = (IF f.err \/ t.err THEN toTs ELSE t.t)
                 /\ UNCHANGED <<dirs, body, walkErr>>
            ELSE LET ds == listTargetDirectories(f.t, t.t) IN
                 /\ fromTs' = f.t
                 /\ toTs' = t.t
                 /\ dirs' = ds
                 /\ IF ds.panic # NoPanic
                    THEN \* the panic unwinds the handler: no response is written
                         /\ lpc' = "panicked"
                         /\ UNCHANGED <<status, body, walkErr>>
                    ELSE \E failing \in FailingSets(Len(ds.result)) :
                         /\ body' = walkAll(ds.result, failing, 1)
                         /\ walkErr' = (failing # {})
                         /\ status' = walkStatus(failing # {}, body')
                         /\ lpc' = "done"
    /\ UNCHANGED query
    /\ UNCHANGED consumerVars

NextList == ListHandler

SpecList == InitList /\ [][NextList]_vars

(***************************************************************************)
(* The stored layout and the subtree a prefix names                        *)
(***************************************************************************)
\* the consumer's default layout "2006/01/02/15": the directory of the hour of t
HourBucket(t) ==
    <<Sprintf04d(Year(t)), Sprintf02d(Month(t)), Sprintf02d(Day(t)), Sprintf02d(Hour(t))>>

\* filepath.WalkDir(filepath.Join(directory, d), ...) visits what lies under d
IsPrefix(p, q) == Len(p) <= Len(q) /\ SubSeq(q, 1, Len(p)) = p

\* the number a segment of digits spells
RECURSIVE Atoi(_)
Atoi(digits) ==
    IF Len(digits) = 0 THEN 0
    ELSE 10 * Atoi(SubSeq(digits, 1, Len(digits) - 1)) + digits[Len(digits)]

\* the first and the last hour of the calendar bucket a prefix names
FirstHourOf(p) ==
    Date(Atoi(p[1]),
         IF Len(p) >= 2 THEN Atoi(p[2]) ELSE 1,
         IF Len(p) >= 3 THEN Atoi(p[3]) ELSE 1,
         IF Len(p) >= 4 THEN Atoi(p[4]) ELSE 0, 0)

LastHourOf(p) ==
    LET y == Atoi(p[1])
        m == IF Len(p) >= 2 THEN Atoi(p[2]) ELSE 12
        d == IF Len(p) >= 3 THEN Atoi(p[3]) ELSE DaysIn(y, m)
        h == IF Len(p) >= 4 THEN Atoi(p[4]) ELSE 23
    IN  Date(y, m, d, h, 0)

\* the hour of t holds an instant of [fromTs, toTs)
HourInRange(t) ==
    /\ Before([t EXCEPT !.sub = 0], toTs)
    /\ Before(fromTs, AddHours([t EXCEPT !.sub = 0], 1))

Covered(bucket) == \E i \in 1 .. Len(dirs.result) : IsPrefix(dirs.result[i], bucket)

(***************************************************************************)
(* C1: every hour bucket that holds an instant of [from, to) is equal to,  *)
(* or lies under, a prefix listTargetDirectories(from, to) returns.        *)
(***************************************************************************)
C1_Coverage ==
    lpc = "returned" =>
        \A t \in Instants : HourInRange(t) => Covered(HourBucket(t))

(***************************************************************************)
(* C2: listTargetDirectories(2023-01-01T00:00:00, 2024-01-01T00:00:00)     *)
(* returns exactly ["2023"].                                               *)
(***************************************************************************)
C2_WholeYear ==
    (lpc # "call" /\ fromTs = T(2023, 1, 1, 0, 0) /\ toTs = T(2024, 1, 1, 0, 0)) =>
        (dirs.panic = NoPanic /\ dirs.result = << <<Itoa(2023)>> >>)

(***************************************************************************)
(* C3: for t on an hour boundary, listTargetDirectories(t, t + 1h) returns *)
(* exactly one element, the hour bucket of t.                              *)
(***************************************************************************)
C3_SingleHour ==
    (lpc # "call" /\ fromTs.sub = 0 /\ toTs = AddHours(fromTs, 1)) =>
        (dirs.panic = NoPanic /\ dirs.result = <<HourBucket(fromTs)>>)

(***************************************************************************)
(* C10: when listTargetDirectories(from, to) returns, every returned       *)
(* prefix names a calendar bucket of the stored layout all of whose hour   *)
(* buckets hold an instant of [from, to).  The hours of a bucket are       *)
(* consecutive, so all of them meet the range when the first and the last  *)
(* do.                                                                     *)
(***************************************************************************)
C10_Soundness ==
    lpc = "returned" =>
        \A i \in 1 .. Len(dirs.result) :
            LET p == dirs.result[i] IN
            /\ Len(p) \in 1 .. 4
            /\ IsPrefix(p, HourBucket(FirstHourOf(p)))
            /\ IsPrefix(p, HourBucket(LastHourOf(p)))
            /\ HourInRange(FirstHourOf(p))
            /\ HourInRange(LastHourOf(p))

\* a call that returned prefixes of all four grains
C10_Witness ==
    /\ lpc = "returned"
    /\ \A n \in 1 .. 4 : \E i \in 1 .. Len(dirs.result) : Len(dirs.result[i]) = n
(***************************************************************************)
(* C8 as stated: a filesystem error during the walk of a candidate         *)
(* directory makes the response status 500.                                *)
(***************************************************************************)
C8_ErrorGives500 == (lpc = "done" /\ walkErr) => status = 500

(***************************************************************************)
(* C8 as amended: a filesystem error during the walk is dropped; the       *)
(* response status is 200 and the response lists the files of the          *)
(* candidate directories whose walk did not fail.                          *)
(***************************************************************************)
C8_ErrorGives200 ==
    (lpc = "done" /\ walkErr) =>
        /\ status = 200
        /\ Len(body) < Len(dirs.result)
        /\ \A i \in 1 .. Len(body) : \E j \in 1 .. Len(dirs.result) : body[i] = dirs.result[j]

\* a walk that failed in one directory and listed the files of another
C8_Witness == lpc = "done" /\ walkErr /\ Len(body) > 0
(***************************************************************************)
(* Claims about the consumer                                               *)
(***************************************************************************)
\* the callback of m is inside downloadAndSaveCameraClipPreview
Downloading(m) == cpc[m] \in {"get", "probe", "create", "copy"}

(***************************************************************************)
(* C4 as stated: a message is acknowledged on receipt, before its          *)
(* processing completes, so that at a crash in the middle of a download    *)
(* the message is already acknowledged.                                    *)
(***************************************************************************)
C4_AckOnReceipt == \A m \in Msgs : Downloading(m) => acks[m] >= 1

(***************************************************************************)
(* C4 as amended: a message is acknowledged when its callback returns,     *)
(* after its processing has completed or failed; at a crash in the middle  *)
(* of a download the message is not acknowledged.                          *)
(***************************************************************************)
C4_AckOnReturn ==
    \A m \in Msgs :
        /\ acks[m] >= 1 => cpc[m] = "done"
        /\ (crashed /\ Downloading(m)) => acks[m] = 0

\* a crash during the copy of one message, after another was saved and acknowledged
C4_Witness ==
    /\ crashed
    /\ \E m \in Msgs : cpc[m] = "copy" /\ acks[m] = 0
    /\ \E m \in Msgs : cpc[m] = "done" /\ acks[m] = 1 /\ started[m]

(***************************************************************************)
(* C5: a callback that returns has acknowledged its message exactly once   *)
(* whatever the outcome, and never nacked it; an error of one message does *)
(* not stop the subscriber, which runs as long as the process does.        *)
(***************************************************************************)
C5_AckOnceAlways ==
    /\ \A m \in Msgs : cpc[m] = "done" => (acks[m] = 1 /\ nacks[m] = 0)
    /\ \A m \in Msgs : nacks[m] = 0 /\ acks[m] <= 1
    /\ receiving <=> ~crashed

\* a message that failed, and a later one that was processed and saved
C5_Witness ==
    /\ cpc[1] = "done" /\ outcome[1] # Nil /\ acks[1] = 1
    /\ cpc[2] = "done" /\ outcome[2] = Nil /\ acks[2] = 1
    /\ \E k \in 1 .. Len(created) : created[k].by = 2

(***************************************************************************)
(* C6: under every interleaving of the callbacks no invocation creates a   *)
(* path that another invocation has created: every output path is created *)
(* once.                                                                   *)
(***************************************************************************)
C6_CreatedOnce ==
    \A j, k \in 1 .. Len(created) : j # k => created[j].name # created[k].name

(***************************************************************************)
(* C7: with one download at a time, the k-th clip (k = 0, 1, ...) created  *)
(* with the same session id, format-resolved time and extension has the    *)
(* suffix _k, and no file is created twice.                                *)
(***************************************************************************)
SameBase(a, b) == a.sid = b.sid /\ a.ts = b.ts /\ a.ext = b.ext

C7_SuffixOrder ==
    \A k \in 1 .. Len(created) :
        /\ created[k].name.i =
              Cardinality({ j \in 1 .. (k - 1) : SameBase(created[j].name, created[k].name) })
        /\ \A j \in 1 .. (k - 1) : created[j].name # created[k].name

\* two clips of one session saved within one format-resolved time
C7_Witness ==
    /\ Len(created) = 2
    /\ SameBase(created[1].name, created[2].name)
    /\ created[1].name.i = 0
    /\ created[2].name.i = 1
    /\ \A m \in Msgs : cpc[m] = "done" /\ outcome[m] = Nil

(***************************************************************************)
(* C9 as stated: Process starts a download if and only if the event is a   *)
(* resource update with at least one of the three primary keys carrying a  *)
(* decodable payload and with a clip preview that decodes.                 *)
(***************************************************************************)
PrimaryKeys == <<DoorbellChime, CameraMotion, CameraPerson>>

SomePrimaryDecodes(e) == \E n \in 1 .. 3 : e.events[PrimaryKeys[n]] = "ok"

C9_AnyPrimaryKey ==
    cpc[1] = "done" =>
        (started[1] <=>
            /\ event[1].json
            /\ event[1].resourceUpdate
            /\ SomePrimaryDecodes(event[1])
            /\ event[1].events[CameraClipPreview] = "ok")

(***************************************************************************)
(* C9 as amended: Process starts a download if and only if the event is a  *)
(* resource update in which the first key present, in the order            *)
(* DoorbellChime, CameraMotion, CameraPerson, has a decodable payload, and *)
(* which has a clip preview that decodes.  In every other case no file is  *)
(* written: a relation update returns success, an undecodable clip preview *)
(* returns success, and a resource update with none of the three primary   *)
(* keys returns an error naming the event and trait keys.                  *)
(***************************************************************************)
NoPrimary(e) == \A n \in 1 .. 3 : e.events[PrimaryKeys[n]] = "absent"

FirstPrimaryDecodes(e) ==
    \E n \in 1 .. 3 :
        /\ e.events[PrimaryKeys[n]] = "ok"
        /\ \A k \in 1 .. (n - 1) : e.events[PrimaryKeys[k]] = "absent"

C9_FirstPrimaryKey ==
    cpc[1] = "done" =>
        LET e == event[1] IN
        /\ started[1] <=>
              /\ e.json
              /\ e.resourceUpdate
              /\ FirstPrimaryDecodes(e)
              /\ e.events[CameraClipPreview] = "ok"
        /\ ~started[1] => created = <<>>
        /\ (e.json /\ ~e.resourceUpdate /\ e.relationUpdate) => outcome[1] = Nil
        /\ (e.json /\ e.resourceUpdate /\ FirstPrimaryDecodes(e)
               /\ e.events[CameraClipPreview] # "ok") => outcome[1] = Nil
        /\ (e.json /\ e.resourceUpdate /\ NoPrimary(e)) =>
              outcome[1] = [err |-> "unsupported resource update event",
                            events |-> { k \in EventKeys : e.events[k] # "absent" },
                            traits |-> e.traits]

\* a motion event with a clip preview, saved
C9_Witness ==
    /\ cpc[1] = "done"
    /\ started[1]
    /\ event[1].events[DoorbellChime] = "absent"
    /\ event[1].events[CameraMotion] = "ok"
    /\ outcome[1] = Nil
    /\ Len(created) = 1
(***************************************************************************)
(* C11: for every pair from < to, listTargetDirectories and its recursive  *)
(* calls return a list and reach neither the panic "month must not be      *)
(* December" nor the panic "from month must not be larger than to month".  *)
(***************************************************************************)
C11_NoPanic ==
    lpc # "call" =>
        /\ lpc = "returned"
        /\ dirs.panic # PanicDecember
        /\ dirs.panic # PanicLarger

(***************************************************************************)
(* C12: the collision probe terminates.  The loop tries the suffixes i,    *)
(* i + 1, ... in order and leaves at the first one whose os.Stat result    *)
(* os.IsNotExist accepts, so it exits exactly when such a suffix lies      *)
(* ahead.  With finitely many existing files one of the next               *)
(* Len(created) + 1 names is unused, hence: whatever os.Stat answers       *)
(* (exists, does not exist, another error), a probing callback has a       *)
(* suffix ahead of it, among the next Len(created) + 1, at which the loop  *)
(* breaks, so that the callback returns and its message is acknowledged.   *)
(***************************************************************************)
C12_ProbeExits ==
    \A m \in Msgs :
        (~crashed /\ cpc[m] = "probe") =>
            \E j \in local[m].i .. (local[m].i + Len(created)) :
                probeBreaks(osStat(FileName(event[m].sid,
                                            [local[m] EXCEPT !.i = j]),
                                   statFault))
====
